---- MODULE Spec2Model ----
(***************************************************************************)
(* fake-dns (src/src/main.rs): a UDP responder that answers the first      *)
(* question of every DNS request with one A record whose address is drawn  *)
(* at random from a configured IPv4 block.                                 *)
(*                                                                         *)
(* Strings are sequences of one-character strings, datagrams are sequences *)
(* of bytes (0..255), IPv4 addresses and the pool fields are u32 numbers.  *)
(* Library calls made by main.rs (ipnetwork's CIDR parser, hickory-proto's *)
(* wire decoder and encoder, rand's gen_range) are modelled at the line    *)
(* of main.rs that calls them.                                             *)
(***************************************************************************)
EXTENDS Integers, Sequences, FiniteSets, TLC

VARIABLES
    pc,        \* position of the running function (main, the test, or a lone query call)
    cidr,      \* cli.cidr / the test's literal: the CIDR string
    given,     \* what the input (that string, or the request of a lone query call)
               \* was written to denote
    ipv4,      \* result of Ipv4::from_cidr (NoPool before the call)
    exit_err,  \* the error main returned with, "panic" when it panicked ("none" while it runs)
    socket,    \* "unbound" | "bound"
    buf,       \* main's 512-byte receive buffer
    size,      \* bytes written by the last recv_from
    src,       \* source address of the last recv_from
    sent,      \* datagrams handed to send_to that went out: [to, bytes]
    log,       \* lines printed by log!
    wire,      \* the datagram most recently delivered by the network, as it was sent:
               \* [bytes, from, kind, id]
    trace,     \* per received datagram, what became of it
    sampled,   \* value returned by the last get_ip call of the test loop
    ncalls,    \* number of get_ip calls made by the test loop
    fault,     \* TRUE once u32 arithmetic overflowed or gen_range got an empty range
    data,      \* argument of a lone query call
    fake,      \* value the address closure of that call returns
    result,    \* what query returned
    encoded    \* the bytes to_bytes returned last

vars == <<pc, cidr, given, ipv4, exit_err, socket, buf, size, src, sent, log, wire,
          trace, sampled, ncalls, fault, data, fake, result, encoded>>

----------------------------------------------------------------------------
(* Program constants and bounds *)

BufLen == 512
Ttl == 600
MaxRecv == 2
MaxCalls == 2
MaxFactor == 2
MainWordBits == 1

\* A u32 is kept as two 16-bit halves [hi, lo] (value hi * 65536 + lo), so that
\* its arithmetic is exact: a result whose hi leaves 0..65535 has left the u32
\* range (overflow above, underflow below).
Half == 2 ^ 16

W(h, l) == [hi |-> h, lo |-> l]

WAdd(a, b) ==
    LET l == a.lo + b.lo IN W(a.hi + b.hi + (l \div Half), l % Half)

WSub(a, b) ==
    LET l == a.lo - b.lo IN W(a.hi - b.hi - (IF l < 0 THEN 1 ELSE 0), l % Half)

WLess(a, b) == a.hi < b.hi \/ (a.hi = b.hi /\ a.lo < b.lo)

WLeq(a, b) == a = b \/ WLess(a, b)

Fits32(a) == a.hi >= 0 /\ a.hi < Half

Wrap32(a) == W(a.hi % Half, a.lo)

\* 2^n for n in 0..32 (2^32 has hi = 65536: it does not fit a u32)
WPow2(n) == IF n < 16 THEN W(0, 2 ^ n) ELSE W(2 ^ (n - 16), 0)

\* a mod 2^k for k in 0..32
WMod2k(a, k) ==
    IF k >= 16 THEN W(a.hi % (2 ^ (k - 16)), a.lo) ELSE W(0, a.lo % (2 ^ k))

Min(a, b) == IF a < b THEN a ELSE b

Take(s, n) == SubSeq(s, 1, Min(n, Len(s)))

Drop(s, n) == SubSeq(s, n + 1, Len(s))

\* F applied to the value of e, which is computed once
With(e, F(_)) == CHOOSE r \in {F(v) : v \in {e}} : TRUE

----------------------------------------------------------------------------
(* cidr.parse::<Ipv4Network>()  (main.rs:86) *)

Digits == <<"0", "1", "2", "3", "4", "5", "6", "7", "8", "9">>

IsDigit(c) == \E i \in 1..10 : Digits[i] = c

DigitVal(c) == (CHOOSE i \in 1..10 : Digits[i] = c) - 1

\* the number a digit string denotes; every value above 999 is reported as
\* 1000 (all the callers ask is whether it exceeds 255)
RECURSIVE DecimalValue(_)
DecimalValue(s) ==
    IF s = <<>> THEN 0
    ELSE Min(1000, 10 * DecimalValue(SubSeq(s, 1, Len(s) - 1)) + DigitVal(s[Len(s)]))

AllDigits(s) == s # <<>> /\ \A i \in 1..Len(s) : IsDigit(s[i])

\* index of the first occurrence of c in s, 0 when absent (str::find)
Find(s, c) ==
    IF \E i \in 1..Len(s) : s[i] = c
    THEN CHOOSE i \in 1..Len(s) : s[i] = c /\ \A j \in 1..(i - 1) : s[j] # c
    ELSE 0

RECURSIVE Split(_, _)
Split(s, c) ==
    LET i == Find(s, c) IN
    IF i = 0 THEN <<s>>
    ELSE <<SubSeq(s, 1, i - 1)>> \o Split(Drop(s, i), c)

\* one octet of Ipv4Addr::from_str: 1 to 3 digits, no leading zero, at most 255
OctetOk(s) ==
    /\ AllDigits(s)
    /\ Len(s) <= 3
    /\ (Len(s) > 1 => s[1] # "0")
    /\ DecimalValue(s) <= 255

\* Ipv4Addr::from_str
ParseIpv4Addr(s) ==
    LET parts == Split(s, ".") IN
    IF Len(parts) = 4 /\ \A i \in 1..4 : OctetOk(parts[i])
    THEN [ok |-> TRUE,
          val |-> W(DecimalValue(parts[1]) * 256 + DecimalValue(parts[2]),
                    DecimalValue(parts[3]) * 256 + DecimalValue(parts[4]))]
    ELSE [ok |-> FALSE, val |-> W(0, 0)]

\* str::parse::<u8>: an optional '+', then digits (leading zeros allowed), at most 255
ParseU8(s) ==
    LET body == IF s # <<>> /\ s[1] = "+" THEN Drop(s, 1) ELSE s IN
    IF AllDigits(body) /\ DecimalValue(body) <= 255
    THEN [ok |-> TRUE, val |-> DecimalValue(body)]
    ELSE [ok |-> FALSE, val |-> 0]

\* ipnetwork::parse_prefix(s, 32)
parse_prefix(s) ==
    LET p == ParseU8(s) IN
    IF p.ok /\ p.val <= 32 THEN p ELSE [ok |-> FALSE, val |-> 0]

\* u32::leading_zeros
RECURSIVE BitLength(_)
BitLength(x) == IF x = 0 THEN 0 ELSE 1 + BitLength(x \div 2)

leading_zeros(x) == 32 - (IF x.hi # 0 THEN 16 + BitLength(x.hi) ELSE BitLength(x.lo))

\* ipnetwork::ipv4_mask_to_prefix: the mask's leading ones, rejected when a
\* lower bit is set as well
ipv4_mask_to_prefix(mask) ==
    LET prefix == leading_zeros(W(Half - 1 - mask.hi, Half - 1 - mask.lo)) IN
    IF WMod2k(mask, 32 - prefix) # W(0, 0)
    THEN [ok |-> FALSE, val |-> 0]
    ELSE [ok |-> TRUE, val |-> prefix]

\* ipnetwork::cidr_parts: split at the first '/', a second '/' is an error
cidr_parts(s) ==
    LET i == Find(s, "/") IN
    IF i = 0 THEN [ok |-> TRUE, addr |-> s, has_prefix |-> FALSE, prefix |-> <<>>]
    ELSE IF Find(Drop(s, i), "/") # 0
         THEN [ok |-> FALSE, addr |-> <<>>, has_prefix |-> FALSE, prefix |-> <<>>]
         ELSE [ok |-> TRUE, addr |-> SubSeq(s, 1, i - 1), has_prefix |-> TRUE,
               prefix |-> Drop(s, i)]

NoNetwork == [ok |-> FALSE, ip |-> W(0, 0), prefix |-> 0]

\* <Ipv4Network as FromStr>::from_str
ParseIpv4Network(s) ==
    LET parts == cidr_parts(s) IN
    IF ~parts.ok THEN NoNetwork
    ELSE LET addr == ParseIpv4Addr(parts.addr)
             mask == ParseIpv4Addr(parts.prefix)
             prefix == IF ~parts.has_prefix THEN [ok |-> TRUE, val |-> 32]
                       ELSE IF mask.ok THEN ipv4_mask_to_prefix(mask.val)
                       ELSE parse_prefix(parts.prefix)
         IN IF addr.ok /\ prefix.ok
            THEN [ok |-> TRUE, ip |-> addr.val, prefix |-> prefix.val]
            ELSE NoNetwork

\* network() taken for ip(): the address as written, host bits and all
network_unmasked(n) == n.ip

\* Ipv4Network::network: the address with its host bits cleared
network(n) == WSub(n.ip, WMod2k(n.ip, 32 - n.prefix))

----------------------------------------------------------------------------
(* Ipv4::from_cidr  (main.rs:84-99) *)

NoPool == [ok |-> FALSE, err |-> "none", base |-> W(0, 0), range |-> W(0, 0)]

Failed(e) == [ok |-> FALSE, err |-> e, base |-> W(0, 0), range |-> W(0, 0)]

\* 1u32.checked_shl(n): None when the shift is 32 or more, else 1 << n
checked_shl_1(n) ==
    IF n >= 32 THEN [some |-> FALSE, val |-> W(0, 0)] ELSE [some |-> TRUE, val |-> WPow2(n)]

\* from_cidr shifting by the prefix length instead of by 32 - prefix
from_cidr_shift_by_prefix(s) ==
    LET net == ParseIpv4Network(s) IN
    IF ~net.ok THEN Failed("Ipv4Network")
    ELSE LET mask == net.prefix
             r == checked_shl_1(mask)
         IN IF ~r.some \/ WLeq(r.val, W(0, 2)) THEN Failed("IpNotEnough")
            ELSE [ok |-> TRUE, err |-> "none", base |-> network(net), range |-> r.val]

\* from_cidr rejecting r < 2 instead of r <= 2
from_cidr_lt2(s) ==
    LET net == ParseIpv4Network(s) IN
    IF ~net.ok THEN Failed("Ipv4Network")
    ELSE LET mask == net.prefix
             r == checked_shl_1(32 - mask)
         IN IF ~r.some \/ WLess(r.val, W(0, 2)) THEN Failed("IpNotEnough")
            ELSE [ok |-> TRUE, err |-> "none", base |-> network(net), range |-> r.val]

from_cidr(s) ==
    LET net == ParseIpv4Network(s) IN
    IF ~net.ok THEN Failed("Ipv4Network")
    ELSE LET mask == net.prefix
             r == checked_shl_1(32 - mask)
         IN IF ~r.some \/ WLeq(r.val, W(0, 2)) THEN Failed("IpNotEnough")
            ELSE [ok |-> TRUE, err |-> "none", base |-> network(net), range |-> r.val]

----------------------------------------------------------------------------
(* Ipv4::get_ip  (main.rs:101-107) *)

\* the product of two 16-bit halves, as a u32
MulHalf(x, y) ==
    LET p1 == x * (y \div 256)
        l == (p1 % 256) * 256 + x * (y % 256)
    IN W((p1 \div 256) + (l \div Half), l % Half)

\* u32::wmul: the 64-bit product of two u32, as its high and low 32 bits
wmul(a, b) ==
    LET ll == MulHalf(a.lo, b.lo)
        lh == MulHalf(a.lo, b.hi)
        hl == MulHalf(a.hi, b.lo)
        hh == MulHalf(a.hi, b.hi)
        s1 == ll.hi + lh.lo + hl.lo
        s2 == lh.hi + hl.hi + hh.lo + (s1 \div Half)
    IN [hi |-> W(hh.hi + (s2 \div Half), s2 % Half), lo |-> W(s1 % Half, ll.lo)]

\* a << a.leading_zeros(): the value shifted until its top bit is set
WShlToTop(a) ==
    LET n == leading_zeros(a) IN
    IF n >= 16 THEN W(a.lo * (2 ^ (n - 16)), 0)
    ELSE LET l == a.lo * (2 ^ n) IN W(a.hi * (2 ^ n) + (l \div Half), l % Half)

\* rng.gen_range(low..high) on the u32 word v the generator hands out (rand's
\* UniformInt::sample_single): an empty interval panics; otherwise the word is
\* widened by the interval's length, rejected (another word is drawn) when the
\* low half of the product lies above the zone, and its high half is the offset
\* from low.
gen_range(low, high, v) ==
    IF ~WLess(low, high) THEN [panic |-> TRUE, retry |-> FALSE, val |-> W(0, 0)]
    ELSE LET span == WSub(high, low)
             zone == WSub(WShlToTop(span), W(0, 1))
             m == wmul(v, span)
         IN IF WLeq(m.lo, zone)
            THEN [panic |-> FALSE, retry |-> FALSE, val |-> Wrap32(WAdd(low, m.hi))]
            ELSE [panic |-> FALSE, retry |-> TRUE, val |-> W(0, 0)]

\* get_ip ended in a panic
Panicked == [panic |-> TRUE, fault |-> TRUE, ip |-> W(0, 0)]

\* get_ip returned ip; fault: u32 arithmetic wrapped on the way
Returned(a, f) == [panic |-> FALSE, fault |-> f, ip |-> a]

\* what the rest of get_ip does with an interval lo..hi whose upper end was
\* computed with (f) or without wrapping
get_ip_draw(p, low, high, f, v) ==
    LET s == gen_range(low, high, v) IN
    IF s.panic THEN {Panicked}
    ELSE IF s.retry THEN {}
    ELSE LET sum == WAdd(p.base, s.val) IN
         IF Fits32(sum) THEN {Returned(sum, f)}
         ELSE {Panicked, Returned(Wrap32(sum), TRUE)}

\* get_ip drawing from 0..range instead of 1..range-1
get_ip_whole_block(p, v) == get_ip_draw(p, W(0, 0), p.range, FALSE, v)

\* Ipv4::get_ip when the generator's next accepted word is v (no outcome: v is
\* rejected and gen_range draws again). `self.range - 1` below 0 and
\* `self.base + offset` above u32::MAX panic in a build with overflow checks
\* and wrap in one without: both outcomes are kept.
get_ip(p, v) ==
    LET high == WSub(p.range, W(0, 1)) IN
    IF Fits32(high) THEN get_ip_draw(p, W(0, 1), high, FALSE, v)
    ELSE {Panicked} \cup get_ip_draw(p, W(0, 1), Wrap32(high), TRUE, v)

----------------------------------------------------------------------------
(* Message::from_bytes  (main.rs:55): hickory-proto's wire decoder.         *)
(* Offsets are 0-based as in BinDecoder; byte k of b is b[k + 1].           *)
(* Followed as in hickory-proto 0.24: an opcode or a class outside the      *)
(* enumerations is a decode error. The RDATA of a record of the request is *)
(* framed by its RDLENGTH; only an A record's RDATA is checked further.     *)

Bad == [ok |-> FALSE, next |-> 0, val |-> <<>>]

Good(next, val) == [ok |-> TRUE, next |-> next, val |-> val]

read_u16(b, off) ==
    IF off + 2 > Len(b) THEN Bad ELSE Good(off + 2, b[off + 1] * 256 + b[off + 2])

NameBytes(labels) ==
    LET f[i \in 0..Len(labels)] == IF i = 0 THEN 0 ELSE f[i - 1] + Len(labels[i])
    IN f[Len(labels)]

\* Name::read's loop, at the state [idx, labels]: the decoder's index and the
\* labels read so far. max_idx is -1 for None; name_start is where this name began.
RECURSIVE read_inner(_, _, _, _)
read_inner(b, st, name_start, max_idx) ==
    IF max_idx # -1 /\ st.idx >= max_idx THEN Bad
    ELSE IF st.idx >= Len(b) THEN Bad
    ELSE With(b[st.idx + 1], LAMBDA c :
         IF c = 0
         THEN IF NameBytes(st.labels) >= 255 THEN Bad ELSE Good(st.idx + 1, st.labels)
         ELSE IF c >= 192
         THEN With(read_u16(b, st.idx), LAMBDA ptr :
              IF ~ptr.ok \/ (ptr.val % 16384) >= name_start THEN Bad
              ELSE With(read_inner(b, [idx |-> ptr.val % 16384, labels |-> st.labels],
                                   ptr.val % 16384, name_start),
                        LAMBDA pointed :
                            IF pointed.ok THEN Good(st.idx + 2, pointed.val) ELSE Bad))
         ELSE IF c >= 64 THEN Bad
         ELSE IF st.idx + 1 + c > Len(b) THEN Bad
         ELSE With([idx |-> st.idx + 1 + c,
                    labels |-> Append(st.labels, SubSeq(b, st.idx + 2, st.idx + 1 + c))],
                   LAMBDA after : read_inner(b, after, name_start, max_idx)))

Name_read(b, off) == read_inner(b, [idx |-> off, labels |-> <<>>], off, -1)

OpCodes == {0, 2, 4, 5}

DNSClasses == {1, 3, 4, 254, 255}

TypeA == 1

TypeOPT == 41

ClassIN == 1

\* Header::read: twelve bytes
Header_read(b) ==
    IF Len(b) < 12 \/ ((b[3] % 128) \div 8) \notin OpCodes THEN Bad
    ELSE Good(12, [id |-> b[1] * 256 + b[2],
                   message_type |-> IF b[3] >= 128 THEN "Response" ELSE "Query",
                   op_code |-> (b[3] % 128) \div 8,
                   response_code |-> b[4] % 16,
                   query_count |-> b[5] * 256 + b[6],
                   answer_count |-> b[7] * 256 + b[8],
                   name_server_count |-> b[9] * 256 + b[10],
                   additional_count |-> b[11] * 256 + b[12]])

\* Query::read: name, type, class
Query_read(b, off) ==
    With(Name_read(b, off), LAMBDA name :
    IF ~name.ok THEN Bad
    ELSE With(read_u16(b, name.next), LAMBDA type :
         IF ~type.ok THEN Bad
         ELSE With(read_u16(b, type.next), LAMBDA class :
              IF ~class.ok \/ class.val \notin DNSClasses THEN Bad
              ELSE Good(class.next, [name |-> name.val, query_type |-> type.val,
                                     query_class |-> class.val]))))

\* the loop over header.query_count, at the state [off, left, acc]
RECURSIVE read_queries(_, _)
read_queries(b, st) ==
    IF st.left = 0 THEN Good(st.off, st.acc)
    ELSE With(Query_read(b, st.off), LAMBDA q :
         IF ~q.ok THEN Bad
         ELSE With([off |-> q.next, left |-> st.left - 1, acc |-> Append(st.acc, q.val)],
                   LAMBDA after : read_queries(b, after)))

\* Record::read: name, type, class, ttl, rdlength, rdata (the ttl as a u32 in
\* two halves, the rdata as its bytes)
Record_read(b, off) ==
    With(Name_read(b, off), LAMBDA name :
    IF ~name.ok THEN Bad
    ELSE With(read_u16(b, name.next), LAMBDA type :
         IF ~type.ok THEN Bad
         ELSE With(read_u16(b, type.next), LAMBDA class :
              IF ~class.ok \/ (type.val # TypeOPT /\ class.val \notin DNSClasses) THEN Bad
              ELSE With(read_u16(b, class.next + 4), LAMBDA rdlen :
                   IF ~rdlen.ok \/ rdlen.next + rdlen.val > Len(b) THEN Bad
                   ELSE IF type.val = TypeA /\ rdlen.val \notin {0, 4} THEN Bad
                   ELSE Good(rdlen.next + rdlen.val,
                             [name |-> name.val, rr_type |-> type.val,
                              dns_class |-> class.val,
                              ttl |-> W(read_u16(b, class.next).val,
                                        read_u16(b, class.next + 2).val),
                              rdata |-> SubSeq(b, rdlen.next + 1,
                                               rdlen.next + rdlen.val)])))))

\* Message::read_records, at the state [off, left, edns, acc]: a second OPT
\* record in the additional section is an error
RECURSIVE read_records(_, _, _)
read_records(b, st, is_additional) ==
    IF st.left = 0 THEN Good(st.off, st.acc)
    ELSE With(Record_read(b, st.off), LAMBDA r :
         IF ~r.ok THEN Bad
         ELSE IF is_additional /\ r.val.rr_type = TypeOPT /\ st.edns THEN Bad
         ELSE With([off |-> r.next, left |-> st.left - 1,
                    edns |-> st.edns \/ (is_additional /\ r.val.rr_type = TypeOPT),
                    acc |-> Append(st.acc, r.val)],
                   LAMBDA after : read_records(b, after, is_additional)))

Records(off, count) == [off |-> off, left |-> count, edns |-> FALSE, acc |-> <<>>]

NoMessage ==
    [ok |-> FALSE, id |-> 0, message_type |-> "Query", op_code |-> 0,
     response_code |-> 0, queries |-> <<>>, answers |-> <<>>]

\* Message::from_bytes: header, questions, then the three record sections;
\* bytes after the last record are not looked at
from_bytes(b) ==
    With(Header_read(b), LAMBDA header :
    IF ~header.ok THEN NoMessage
    ELSE With(read_queries(b, [off |-> header.next, left |-> header.val.query_count,
                               acc |-> <<>>]), LAMBDA qs :
         IF ~qs.ok THEN NoMessage
         ELSE With(read_records(b, Records(qs.next, header.val.answer_count), FALSE),
                   LAMBDA an :
              IF ~an.ok THEN NoMessage
              ELSE With(read_records(b, Records(an.next, header.val.name_server_count),
                                     FALSE), LAMBDA ns :
                   IF ~ns.ok THEN NoMessage
                   ELSE With(read_records(b, Records(ns.next,
                                                     header.val.additional_count), TRUE),
                             LAMBDA ar :
                        IF ~ar.ok THEN NoMessage
                        ELSE [ok |-> TRUE, id |-> header.val.id,
                              message_type |-> header.val.message_type,
                              op_code |-> header.val.op_code,
                              response_code |-> header.val.response_code,
                              queries |-> qs.val, answers |-> an.val])))))

----------------------------------------------------------------------------
(* query  (main.rs:51-67) *)

QueryErr(e) == [ok |-> FALSE, err |-> e]

\* Record::from_rdata(name, 600, RData::A(ip)): type A, class IN
from_rdata(name, ttl, ip) ==
    [name |-> name, ttl |-> ttl, rr_type |-> TypeA, dns_class |-> ClassIN, rdata |-> ip]

\* query without set_id: the response keeps Message::new()'s ID 0
query_without_id(bytes, ip) ==
    With(from_bytes(bytes), LAMBDA request :
    IF ~request.ok THEN QueryErr("Proto")
    ELSE IF request.queries = <<>> THEN QueryErr("EmptyQuery")
    ELSE With(request.queries[1], LAMBDA q :
         [ok |-> TRUE, err |-> "none", id |-> 0, message_type |-> "Response",
          op_code |-> 0, response_code |-> 0, queries |-> <<q>>,
          answers |-> <<from_rdata(q.name, Ttl, ip)>>]))

\* query taking queries().last() instead of queries().first()
query_last(bytes, ip) ==
    With(from_bytes(bytes), LAMBDA request :
    IF ~request.ok THEN QueryErr("Proto")
    ELSE IF request.queries = <<>> THEN QueryErr("EmptyQuery")
    ELSE With(request.queries[Len(request.queries)], LAMBDA q :
         [ok |-> TRUE, err |-> "none", id |-> request.id, message_type |-> "Response",
          op_code |-> 0, response_code |-> 0, queries |-> <<q>>,
          answers |-> <<from_rdata(q.name, Ttl, ip)>>]))

\* query answering a request without a question instead of failing with EmptyQuery
query_without_question_check(bytes, ip) ==
    With(from_bytes(bytes), LAMBDA request :
    IF ~request.ok THEN QueryErr("Proto")
    ELSE [ok |-> TRUE, err |-> "none", id |-> request.id, message_type |-> "Response",
          op_code |-> 0, response_code |-> 0, queries |-> Take(request.queries, 1),
          answers |-> <<from_rdata(IF request.queries = <<>> THEN <<>>
                                   ELSE request.queries[1].name, Ttl, ip)>>])

\* ip is the value fake_ip() returns when query calls it
query(bytes, ip) ==
    With(from_bytes(bytes), LAMBDA request :
    IF ~request.ok THEN QueryErr("Proto")
    ELSE IF request.queries = <<>> THEN QueryErr("EmptyQuery")
    ELSE With(request.queries[1], LAMBDA q :
         [ok |-> TRUE, err |-> "none",
          id |-> request.id,
          message_type |-> "Response",
          op_code |-> 0,
          response_code |-> 0,
          queries |-> <<q>>,
          answers |-> <<from_rdata(q.name, Ttl, ip)>>]))

----------------------------------------------------------------------------
(* Message::to_bytes  (main.rs:38): hickory-proto's wire encoder, with its  *)
(* name compression                                                        *)

U16Bytes(n) == <<n \div 256, n % 256>>

U32Bytes(w) == U16Bytes(w.hi) \o U16Bytes(w.lo)

LabelBytes(labels) ==
    LET f[i \in 0..Len(labels)] ==
            IF i = 0 THEN <<>> ELSE f[i - 1] \o <<Len(labels[i])>> \o labels[i]
    IN f[Len(labels)]

\* the offset stored for a name suffix, -1 when none is
Pointer(ptrs, suffix) ==
    IF \E e \in ptrs : e.suffix = suffix
    THEN (CHOOSE e \in ptrs : e.suffix = suffix).at
    ELSE -1

\* Name::emit: labels are written until a suffix is found that an earlier name
\* left in the message, which is replaced by a pointer to it; every suffix
\* written in full is remembered with the offset it starts at.
\* enc is the encoder: [bytes, ptrs].
RECURSIVE emit_name(_, _)
emit_name(enc, labels) ==
    IF labels = <<>> THEN [bytes |-> Append(enc.bytes, 0), ptrs |-> enc.ptrs]
    ELSE With(Pointer(enc.ptrs, labels), LAMBDA at :
         IF at # -1
         THEN [bytes |-> enc.bytes \o U16Bytes(49152 + at), ptrs |-> enc.ptrs]
         ELSE With([enc |-> [bytes |-> enc.bytes \o <<Len(labels[1])>> \o labels[1],
                             ptrs |-> enc.ptrs
                                      \cup {[suffix |-> labels, at |-> Len(enc.bytes)]}],
                    rest |-> Drop(labels, 1)],
                   LAMBDA after : emit_name(after.enc, after.rest)))

emit_query(enc, q) ==
    With(emit_name(enc, q.name), LAMBDA named :
    [bytes |-> named.bytes \o U16Bytes(q.query_type) \o U16Bytes(q.query_class),
     ptrs |-> named.ptrs])

emit_record(enc, r) ==
    With(emit_name(enc, r.name), LAMBDA named :
    [bytes |-> named.bytes \o U16Bytes(r.rr_type) \o U16Bytes(r.dns_class)
               \o <<0, 0>> \o U16Bytes(r.ttl) \o U16Bytes(4) \o U32Bytes(r.rdata),
     ptrs |-> named.ptrs])

\* the queries, then the answers, written one after the other
emit_queries(enc, qs) ==
    LET f[i \in 0..Len(qs)] == IF i = 0 THEN enc ELSE emit_query(f[i - 1], qs[i])
    IN f[Len(qs)]

emit_records(enc, rs) ==
    LET f[i \in 0..Len(rs)] == IF i = 0 THEN enc ELSE emit_record(f[i - 1], rs[i])
    IN f[Len(rs)]

\* the header of a message built by Message::new() and query's four setters:
\* QR from message_type, the opcode, no other flag, the response code
emit_header(m) ==
    U16Bytes(m.id)
        \o <<(IF m.message_type = "Response" THEN 128 ELSE 0) + 8 * m.op_code,
             m.response_code>>
        \o U16Bytes(Len(m.queries)) \o U16Bytes(Len(m.answers)) \o <<0, 0, 0, 0>>

emit_message(m) ==
    emit_records(emit_queries([bytes |-> emit_header(m), ptrs |-> {}], m.queries),
                 m.answers).bytes

\* the two ways the encoder has of failing: a label of more than 255 bytes
\* (emit_character_data), a message that outgrows the encoder's 65535-byte limit
emit_fails(m, bytes) ==
    \/ \E i \in 1..Len(m.queries) : \E j \in 1..Len(m.queries[i].name) :
           Len(m.queries[i].name[j]) > 255
    \/ \E i \in 1..Len(m.answers) : \E j \in 1..Len(m.answers[i].name) :
           Len(m.answers[i].name[j]) > 255
    \/ Len(bytes) > 65535

to_bytes(m) ==
    With(emit_message(m), LAMBDA bytes :
        IF emit_fails(m, bytes) THEN [ok |-> FALSE, bytes |-> <<>>]
        ELSE [ok |-> TRUE, bytes |-> bytes])

----------------------------------------------------------------------------
(* The CIDR strings given to from_cidr *)

RECURSIVE FormatNat(_)
FormatNat(n) ==
    IF n < 10 THEN <<Digits[n + 1]>> ELSE FormatNat(n \div 10) \o <<Digits[(n % 10) + 1]>>

FormatAddr(a) ==
    FormatNat(a[1]) \o <<".">> \o FormatNat(a[2]) \o <<".">> \o FormatNat(a[3])
        \o <<".">> \o FormatNat(a[4])

FormatCidr(a, p) == FormatAddr(a) \o <<"/">> \o FormatNat(p)

Addrs ==
    {<<0, 0, 0, 0>>, <<10, 0, 0, 1>>, <<192, 167, 0, 0>>, <<192, 167, 1, 77>>,
     <<128, 0, 0, 0>>, <<255, 255, 255, 255>>}

Denotes(text, valid, prefix) == [text |-> text, valid |-> valid, prefix |-> prefix]

\* address/prefix in decimal, every prefix length 0..32
PlainCidrs == {Denotes(FormatCidr(a, p), TRUE, p) : a \in Addrs, p \in 0..32}

\* the other spellings ipnetwork accepts: a netmask, a signed or zero-padded
\* prefix, no prefix at all (a host address, /32)
OtherCidrs ==
    {Denotes(FormatAddr(<<192, 167, 0, 0>>) \o <<"/">> \o FormatAddr(<<255, 255, 0, 0>>), TRUE, 16),
     Denotes(FormatAddr(<<10, 0, 0, 1>>) \o <<"/">> \o FormatAddr(<<255, 255, 255, 252>>), TRUE, 30),
     Denotes(FormatAddr(<<10, 0, 0, 1>>) \o <<"/">> \o FormatAddr(<<255, 255, 255, 254>>), TRUE, 31),
     Denotes(FormatAddr(<<10, 0, 0, 1>>) \o <<"/">> \o FormatAddr(<<255, 255, 255, 255>>), TRUE, 32),
     Denotes(FormatAddr(<<10, 0, 0, 1>>) \o <<"/">> \o FormatAddr(<<0, 0, 0, 0>>), TRUE, 0),
     Denotes(FormatAddr(<<10, 0, 0, 1>>) \o <<"/", "+", "8">>, TRUE, 8),
     Denotes(FormatAddr(<<10, 0, 0, 1>>) \o <<"/", "0", "0", "3", "1">>, TRUE, 31),
     Denotes(FormatAddr(<<10, 0, 0, 1>>), TRUE, 32)}

Malformed ==
    {<<>>,
     <<"a", "b", "c">>,
     <<"/">>,
     <<"1", ".", "2", ".", "3", "/", "8">>,
     <<"1", ".", "2", ".", "3", ".", "4", "/">>,
     <<"1", ".", "2", ".", "3", ".", "4", "/", "3", "3">>,
     <<"1", ".", "2", ".", "3", ".", "4", "/", "-", "1">>,
     <<"1", ".", "2", ".", "3", ".", "4", "/", "8", "/", "9">>,
     <<"1", ".", "2", ".", "3", ".", "4", "/", "9", "9", "9", "9", "9", "9", "9", "9", "9", "9", "9">>,
     <<"0", "1", ".", "2", ".", "3", ".", "4", "/", "8">>,
     <<"2", "5", "6", ".", "1", ".", "1", ".", "1", "/", "8">>,
     <<"1", ".", "2", ".", "3", ".", "4", ".", "5", "/", "8">>,
     <<"1", ".", "2", ".", "3", ".", "4", "/", "2", "5", "5", ".", "0", ".", "2", "5", "5", ".", "0">>,
     <<"1", ".", "2", ".", "3", ".", "4", " ", "/", "8">>}

CidrInputs == PlainCidrs \cup OtherCidrs \cup {Denotes(t, FALSE, 0) : t \in Malformed}

----------------------------------------------------------------------------
(* The u32 words the thread's generator hands to gen_range *)

\* (q * 2^j) mod 2^32, for q below 2^15
WScale(q, j) ==
    IF j >= 16 THEN W((q * (2 ^ (j - 16))) % Half, 0)
    ELSE LET l == q * (2 ^ j) IN W((l \div Half) % Half, l % Half)

\* (-a) mod 2^32
WNeg(a) == Wrap32(WSub(WPow2(32), a))

\* The generator can yield any of the 2^32 words. Followed are the words
\* q * 2^j and -(q * 2^j) with q in 0..n and the low 32 - bits bits zero; with
\* n = 2^32 - 1 and bits = 32 these are all the words. 0 gives the lowest value
\* of every interval, and for an interval of 2^k or 2^k - 2 values -(2^(32-k))
\* gives the highest.
Words(n, bits) ==
    UNION {{WScale(q, j), WNeg(WScale(q, j))} : q \in 0..n, j \in (32 - bits)..31}

\* the words followed in tests::parse_ip_cidr
EntropyWords == Words(MaxFactor, 32)

----------------------------------------------------------------------------
(* tests::parse_ip_cidr  (main.rs:131-137): from_cidr(..).unwrap(), then get_ip *)
(* in a loop, here for every CIDR string of CidrInputs                     *)

NoDatagram == [bytes |-> <<>>, from |-> "nobody", kind |-> "none", id |-> 0]

Idle ==
    /\ exit_err = "none" /\ socket = "unbound"
    /\ buf = <<>> /\ size = 0 /\ src = "nobody"
    /\ sent = <<>> /\ log = <<>> /\ wire = NoDatagram
    /\ trace = <<>>

NoCall ==
    /\ data = <<>> /\ fake = W(0, 0)
    /\ result = [ok |-> FALSE, err |-> "none"] /\ encoded = <<>>

InitPool ==
    /\ pc = "test_start"
    /\ \E c \in CidrInputs :
        /\ cidr = c.text
        /\ given = [valid |-> c.valid, prefix |-> c.prefix]
    /\ ipv4 = NoPool
    /\ sampled = W(0, 0) /\ ncalls = 0 /\ fault = FALSE
    /\ Idle /\ NoCall

TestFromCidr ==
    /\ pc = "test_start"
    /\ ipv4' = from_cidr(cidr)
    /\ pc' = IF ipv4'.ok THEN "test_loop" ELSE "test_panicked"
    /\ UNCHANGED <<cidr, given, exit_err, socket, buf, size, src, sent, log, wire,
                   trace, sampled, ncalls, fault, data, fake, result, encoded>>

\* lines 134-136, one iteration: get_ip, then the println! of what it returned,
\* which panics when stdout cannot be written
TestGetIp ==
    /\ pc = "test_loop"
    /\ ncalls < MaxCalls
    /\ \E v \in EntropyWords : \E o \in get_ip(ipv4, v) : \E printed \in BOOLEAN :
        /\ fault' = (fault \/ o.fault)
        /\ IF o.panic
           THEN pc' = "test_panicked" /\ UNCHANGED sampled
           ELSE /\ sampled' = o.ip
                /\ pc' = IF printed THEN pc ELSE "test_panicked"
    /\ ncalls' = ncalls + 1
    /\ UNCHANGED <<cidr, given, ipv4, exit_err, socket, buf, size, src, sent, log,
                   wire, trace, data, fake, result, encoded>>

NextPool == TestFromCidr \/ TestGetIp

SpecPool == InitPool /\ [][NextPool]_vars

----------------------------------------------------------------------------
(* The requests given to query *)

Root == <<>>

NameA == <<<<97>>>>

NameEx == <<<<101, 120>>, <<99, 111, 109>>>>

\* three labels of 63 bytes
NameLong == [i \in 1..3 |-> [j \in 1..63 |-> 96 + i]]

Question(name, type, class) == [name |-> name, query_type |-> type, query_class |-> class]

Questions ==
    {Question(n, t, ClassIN) : n \in {Root, NameA, NameEx}, t \in {TypeA, 28}}
        \cup {Question(NameA, 255, 3)}

QLists == {<<>>} \cup {<<q>> : q \in Questions} \cup {<<q, r>> : q, r \in Questions}

Ids == {0, 4660, 65535}

PlainQuestions(qs) ==
    LET f[i \in 0..Len(qs)] ==
            IF i = 0 THEN <<>>
            ELSE f[i - 1] \o LabelBytes(qs[i].name) \o <<0>> \o U16Bytes(qs[i].query_type)
                     \o U16Bytes(qs[i].query_class)
    IN f[Len(qs)]

\* an EDNS OPT pseudo-record: root name, type 41, payload size 4096, no options
OptRecord == <<0, 0, 41, 16, 0, 0, 0, 0, 0, 0, 0>>

\* a request as a resolver writes it: names in full, flags1 is the byte holding
\* QR, the opcode and RD, `additional` the records of the additional section
Request(id, flags1, qs, n_additional, additional) ==
    U16Bytes(id) \o <<flags1, 0>> \o U16Bytes(Len(qs)) \o <<0, 0, 0, 0>>
        \o U16Bytes(n_additional) \o PlainQuestions(qs) \o additional

Input(bytes, wellformed, id, qs) ==
    [bytes |-> bytes, wellformed |-> wellformed, id |-> id, qs |-> qs]

\* every request of Ids x QLists, with and without an OPT record, whole and cut
\* short at every length
WrittenInputs ==
    UNION {LET full == Request(id, 1, qs, IF opt THEN 1 ELSE 0,
                               IF opt THEN OptRecord ELSE <<>>)
           IN {Input(Take(full, n), n = Len(full), id, qs) : n \in 0..Len(full)}
           : id \in Ids, qs \in QLists, opt \in BOOLEAN}

Q1 == Question(NameEx, TypeA, ClassIN)

Q2 == Question(NameEx, 28, ClassIN)

\* requests written by hand: a second question whose name is a pointer to the
\* first, bytes after the message, a name that is a pointer to the zero byte at
\* offset 0 (the root name), and the wire errors the decoder knows
OtherInputs ==
    {Input(Request(77, 0, <<Q1>>, 0, <<>>) \o <<192, 12, 0, 28, 0, 1>>, TRUE, 77, <<Q1>>),
     Input(U16Bytes(77) \o <<0, 0, 0, 2, 0, 0, 0, 0, 0, 0>> \o PlainQuestions(<<Q1>>)
               \o <<192, 12, 0, 28, 0, 1>>, TRUE, 77, <<Q1, Q2>>),
     Input(U16Bytes(77) \o <<0, 0, 0, 2, 0, 0, 0, 0, 0, 0>> \o PlainQuestions(<<Q1>>)
               \o <<1, 119, 192, 15, 0, 1, 0, 1>>, TRUE, 77,
           <<Q1, Question(<<<<119>>, <<99, 111, 109>>>>, TypeA, ClassIN)>>),
     Input(Request(78, 1, <<Q1>>, 0, <<>>) \o <<1, 2, 3>>, TRUE, 78, <<Q1>>),
     Input(Request(79, 129, <<Q2>>, 0, <<>>), TRUE, 79, <<Q2>>),
     Input(Request(80, 1, <<Question(NameLong, TypeA, ClassIN)>>, 0, <<>>), TRUE, 80,
           <<Question(NameLong, TypeA, ClassIN)>>),
     Input(Request(81, 1, <<Q1>>, 2, OptRecord \o OptRecord), FALSE, 81, <<Q1>>),
     Input(Request(82, 8, <<Q1>>, 0, <<>>), FALSE, 82, <<Q1>>),
     Input(Request(83, 1, <<Question(NameEx, TypeA, 2)>>, 0, <<>>), FALSE, 83, <<>>),
     Input(U16Bytes(84) \o <<1, 0, 0, 1, 0, 0, 0, 0, 0, 0>> \o <<64, 0, 0, 1, 0, 1>>,
           FALSE, 84, <<>>),
     Input(U16Bytes(85) \o <<1, 0, 0, 1, 0, 0, 0, 0, 0, 0>> \o <<192, 12, 0, 1, 0, 1>>,
           FALSE, 85, <<>>),
     Input(U16Bytes(86) \o <<1, 0, 0, 1, 0, 0, 0, 0, 0, 0>> \o <<192, 0, 0, 1, 0, 1>>,
           TRUE, 86, <<Question(Root, TypeA, ClassIN)>>)}

QueryInputs == WrittenInputs \cup OtherInputs

FakeIps == {W(49319, 1), W(65535, 65534)}

----------------------------------------------------------------------------
(* One call of query (main.rs:51-67) and of to_bytes on what it returned   *)
(* (main.rs:38), for every request of QueryInputs                          *)

NoTest == sampled = W(0, 0) /\ ncalls = 0 /\ fault = FALSE

InitQuery ==
    /\ pc = "call"
    /\ \E i \in QueryInputs :
        /\ data = i.bytes
        /\ given = [wellformed |-> i.wellformed, id |-> i.id, qs |-> i.qs]
    /\ fake \in FakeIps
    /\ result = [ok |-> FALSE, err |-> "none"] /\ encoded = <<>>
    /\ cidr = <<>> /\ ipv4 = NoPool
    /\ Idle /\ NoTest

CallQuery ==
    /\ pc = "call"
    /\ result' = query(data, fake)
    /\ pc' = "returned"
    /\ UNCHANGED <<cidr, given, ipv4, exit_err, socket, buf, size, src, sent, log, wire,
                   trace, sampled, ncalls, fault, data, fake, encoded>>

CallToBytes ==
    /\ pc = "returned"
    /\ result.ok
    /\ LET b == to_bytes(result) IN
        /\ encoded' = b.bytes
        /\ pc' = IF b.ok THEN "encoded" ELSE "encode_failed"
    /\ UNCHANGED <<cidr, given, ipv4, exit_err, socket, buf, size, src, sent, log, wire,
                   trace, sampled, ncalls, fault, data, fake, result>>

NextQuery == CallQuery \/ CallToBytes

SpecQuery == InitQuery /\ [][NextQuery]_vars

----------------------------------------------------------------------------
(* main  (main.rs:23-49) *)

MainCidrs ==
    {c \in CidrInputs :
        c.text \in {FormatCidr(<<192, 167, 0, 0>>, 16), FormatCidr(<<10, 0, 0, 1>>, 30),
                    FormatCidr(<<10, 0, 0, 1>>, 31), FormatCidr(<<0, 0, 0, 0>>, 0),
                    <<"a", "b", "c">>}}

Peers == {"peer1", "peer2"}

Datagram(bytes, kind, id) == [bytes |-> bytes, kind |-> kind, id |-> id]

\* what the network delivers: kind says what the datagram is once it has been
\* received into 512 bytes ("ok": decodable with a question, "noq": decodable
\* without one, "bad": not decodable), id the transaction ID it carries
Datagrams ==
    {Datagram(Request(4660, 1, <<Q1>>, 0, <<>>), "ok", 4660),
     Datagram(Request(7, 1, <<Question(NameA, 28, ClassIN), Q1>>, 1, OptRecord), "ok", 7),
     Datagram(Request(9, 1, <<>>, 0, <<>>), "noq", 9),
     Datagram(<<>>, "bad", 0),
     Datagram(Take(Request(21845, 1, <<Q1>>, 0, <<>>), 20), "bad", 21845),
     Datagram(Request(8, 1, [i \in 1..3 |-> Question(NameLong, TypeA, ClassIN)], 0, <<>>),
              "bad", 8)}

Init ==
    /\ pc = "main"
    /\ \E c \in MainCidrs :
        /\ cidr = c.text
        /\ given = [valid |-> c.valid, prefix |-> c.prefix]
    /\ ipv4 = NoPool
    /\ exit_err = "none" /\ socket = "unbound"
    /\ buf = [i \in 1..BufLen |-> 0] /\ size = 0 /\ src = "nobody"
    /\ sent = <<>> /\ log = <<>> /\ wire = NoDatagram /\ trace = <<>>
    /\ NoTest /\ NoCall

\* the words followed in main
MainWords == Words(MaxFactor, MainWordBits)

\* log!(..) (lines 16-20), a println!: the line is written to stdout and main
\* goes on to `then`, or the write fails (stdout is a closed pipe) and println!
\* panics, which ends main
Log(line, printed, then) ==
    IF printed
    THEN pc' = then /\ log' = Append(log, line) /\ UNCHANGED exit_err
    ELSE pc' = "exit" /\ exit_err' = "panic" /\ UNCHANGED log

\* Start without the `?`: main goes on to bind whatever from_cidr returned
Start_without_abort ==
    /\ pc = "main"
    /\ ipv4' = from_cidr(cidr)
    /\ \E printed \in BOOLEAN : Log("start listening", printed, "bind")
    /\ UNCHANGED <<cidr, given, socket, buf, size, src, sent, wire, trace,
                   sampled, ncalls, fault, data, fake, result, encoded>>

\* lines 24-28: from_cidr(&cli.cidr)?, then the "start listening" line
Start ==
    /\ pc = "main"
    /\ ipv4' = from_cidr(cidr)
    /\ IF ipv4'.ok
       THEN \E printed \in BOOLEAN : Log("start listening", printed, "bind")
       ELSE pc' = "exit" /\ exit_err' = ipv4'.err /\ UNCHANGED log
    /\ UNCHANGED <<cidr, given, socket, buf, size, src, sent, wire, trace, sampled,
                   ncalls, fault, data, fake, result, encoded>>

\* line 30: UdpSocket::bind(&cli.listen).await?
Bind ==
    /\ pc = "bind"
    /\ \E bound \in BOOLEAN :
        IF bound
        THEN pc' = "recv" /\ socket' = "bound" /\ UNCHANGED exit_err
        ELSE pc' = "exit" /\ exit_err' = "Io" /\ UNCHANGED socket
    /\ UNCHANGED <<cidr, given, ipv4, buf, size, src, sent, log, wire, trace, sampled,
                   ncalls, fault, data, fake, result, encoded>>

\* line 34: socket.recv_from(&mut buf).await? -- the datagram's first 512 bytes
\* overwrite the start of buf, the rest of buf keeps what it held
Recv ==
    /\ pc = "recv"
    /\ Len(trace) < MaxRecv
    /\ \E d \in Datagrams, from \in Peers :
        /\ size' = Min(Len(d.bytes), BufLen)
        /\ buf' = Take(d.bytes, BufLen) \o Drop(buf, size')
        /\ src' = from
        /\ wire' = [bytes |-> d.bytes, from |-> from, kind |-> d.kind, id |-> d.id]
    /\ pc' = "handle"
    /\ UNCHANGED <<cidr, given, ipv4, exit_err, socket, sent, log, trace, sampled,
                   ncalls, fault, data, fake, result, encoded>>

\* line 34, recv_from returning an error: `?` returns it from main
RecvErr ==
    /\ pc = "recv"
    /\ pc' = "exit"
    /\ exit_err' = "Io"
    /\ UNCHANGED <<cidr, given, ipv4, socket, buf, size, src, sent, log, wire, trace,
                   sampled, ncalls, fault, data, fake, result, encoded>>

\* the whole buffer handed to query instead of its first `size` bytes
request_bytes_whole_buf == buf

\* line 35
request_bytes == SubSeq(buf, 1, size)

\* lines 37-39 and the arms of lines 44 and 46: query on the received bytes
\* (which calls get_ip once, and only for a request it accepts), to_bytes on
\* the message it returns, and the log line of whichever of the two failed.
\* A panic of get_ip ends main. With the bytes to send, main goes on to send_to.
Handle ==
    /\ pc = "handle"
    /\ LET rejected == query(request_bytes, W(0, 0)) IN
       IF ~rejected.ok
       THEN /\ \E printed \in BOOLEAN :
                Log(<<"failed to parse request bytes", rejected.err>>, printed, "recv")
            /\ trace' = Append(trace, rejected.err)
            /\ UNCHANGED <<fault, encoded>>
       ELSE \E v \in MainWords : \E o \in get_ip(ipv4, v) :
            /\ fault' = (fault \/ o.fault)
            /\ IF o.panic
               THEN /\ pc' = "exit" /\ exit_err' = "panic"
                    /\ trace' = Append(trace, "panicked")
                    /\ UNCHANGED <<log, encoded>>
               ELSE LET b == to_bytes(query(request_bytes, o.ip)) IN
                    IF b.ok
                    THEN /\ pc' = "send" /\ encoded' = b.bytes
                         /\ UNCHANGED <<exit_err, log, trace>>
                    ELSE /\ \E printed \in BOOLEAN :
                             Log("failed to parse message", printed, "recv")
                         /\ trace' = Append(trace, "encode failed")
                         /\ UNCHANGED encoded
    /\ UNCHANGED <<cidr, given, ipv4, socket, buf, size, src, sent, wire, sampled,
                   ncalls, data, fake, result>>

\* lines 40-42: socket.send_to(b, &src).await and the log line of its failure;
\* delivered is whether send_to returned Ok
Send ==
    /\ pc = "send"
    /\ \E delivered \in BOOLEAN :
        IF delivered
        THEN /\ sent' = Append(sent, [to |-> src, bytes |-> encoded])
             /\ trace' = Append(trace, "answered")
             /\ pc' = "recv"
             /\ UNCHANGED <<exit_err, log>>
        ELSE /\ \E printed \in BOOLEAN :
                 Log("failed to send dns response", printed, "recv")
             /\ trace' = Append(trace, "send failed")
             /\ UNCHANGED sent
    /\ UNCHANGED <<cidr, given, ipv4, socket, buf, size, src, wire, sampled, ncalls,
                   fault, data, fake, result, encoded>>

Next == Start \/ Bind \/ Recv \/ RecvErr \/ Handle \/ Send

Spec == Init /\ [][Next]_vars

----------------------------------------------------------------------------
(* Properties of query and to_bytes (specification SpecQuery) *)

\* the one answer record query builds for question q
AnswerFor(q, ip) ==
    [name |-> q.name, ttl |-> 600, rr_type |-> 1, dns_class |-> 1, rdata |-> ip]

\* the same record as from_bytes reads it back from the wire
AnswerOnWire(q, ip) ==
    [name |-> q.name, rr_type |-> 1, dns_class |-> 1, ttl |-> W(0, 600),
     rdata |-> U32Bytes(ip)]

\* C1: for every well-formed request with at least one question Q (its first),
\* query succeeds and the response carries the request's transaction ID, message
\* type response, opcode standard query, response code no error, the question
\* section [Q] and exactly one answer: Q's name, TTL 600, type A, and the address
\* the supplied function returned; the encoded response decodes to the same.
C1_ResponseMirrorsRequest ==
    (pc \in {"returned", "encoded"} /\ given.wellformed /\ given.qs # <<>>) =>
        /\ result.ok
        /\ result.id = given.id
        /\ result.message_type = "Response"
        /\ result.op_code = 0
        /\ result.response_code = 0
        /\ result.queries = <<given.qs[1]>>
        /\ result.answers = <<AnswerFor(given.qs[1], fake)>>
        /\ pc = "encoded" =>
            LET back == from_bytes(encoded) IN
            /\ back.ok
            /\ back.id = given.id
            /\ back.message_type = "Response"
            /\ back.op_code = 0
            /\ back.response_code = 0
            /\ back.queries = <<given.qs[1]>>
            /\ back.answers = <<AnswerOnWire(given.qs[1], fake)>>

\* C1 witness: the request 0x1234 "ex.com. A IN" answered with 192.167.0.1
C1_Witness ==
    /\ pc = "encoded"
    /\ given.wellformed /\ given.id = 4660 /\ given.qs = <<Q1>>
    /\ fake = W(49319, 1)
    /\ encoded = <<18, 52, 128, 0, 0, 1, 0, 1, 0, 0, 0, 0,
                   2, 101, 120, 3, 99, 111, 109, 0, 0, 1, 0, 1,
                   192, 12, 0, 1, 0, 1, 0, 0, 2, 88, 0, 4, 192, 167, 0, 1>>

\* C8: only the first question is answered: for a decodable request with n >= 1
\* questions of any types, the response holds exactly one question, the
\* request's first, and exactly one answer, of type A and named after that first
\* question; a later question appears nowhere in it, and a non-A question is
\* answered with an A record all the same.
C8_FirstQuestionOnly ==
    (pc \in {"returned", "encoded"} /\ given.wellformed /\ Len(given.qs) >= 1) =>
        /\ result.ok
        /\ Len(result.queries) = 1
        /\ Len(result.answers) = 1
        /\ result.queries[1] = given.qs[1]
        /\ result.answers[1].rr_type = 1
        /\ result.answers[1].name = given.qs[1].name
        /\ \A i \in 2..Len(given.qs) :
            given.qs[i] # given.qs[1] => given.qs[i] # result.queries[1]
        /\ \A i \in 2..Len(given.qs) :
            given.qs[i].name # given.qs[1].name =>
                given.qs[i].name # result.answers[1].name
        /\ pc = "encoded" =>
            /\ Len(from_bytes(encoded).queries) = 1
            /\ Len(from_bytes(encoded).answers) = 1
            /\ from_bytes(encoded).answers[1].rr_type = 1
            /\ from_bytes(encoded).answers[1].name = given.qs[1].name

\* C8 witness: two questions with different names, the first of type AAAA
C8_Witness ==
    /\ pc = "encoded"
    /\ given.wellformed
    /\ Len(given.qs) = 2
    /\ given.qs[1].query_type = 28
    /\ given.qs[2].name # given.qs[1].name
    /\ result.queries = <<given.qs[1]>>
    /\ from_bytes(encoded).answers[1].rr_type = 1

----------------------------------------------------------------------------
(* Properties of from_cidr and get_ip (specification SpecPool) *)

Called == pc \in {"test_loop", "test_panicked"}

\* C2 as stated: for every valid CIDR string with prefix length 0..30,
\* from_cidr succeeds and the pool's range is 2^(32-prefix).
C2_AsStated ==
    (Called /\ given.valid /\ given.prefix <= 30) =>
        ipv4.ok /\ ipv4.range = WPow2(32 - given.prefix)

\* C2 as amended: for every valid CIDR string with prefix length 1..30,
\* from_cidr succeeds and the pool's range is 2^(32-prefix); with prefix length 0
\* the shift by 32 overflows and from_cidr fails with IpNotEnough.
C2_PrefixOneToThirty ==
    /\ (Called /\ given.valid /\ given.prefix \in 1..30) =>
            ipv4.ok /\ ipv4.range = WPow2(32 - given.prefix)
    /\ (Called /\ given.valid /\ given.prefix = 0) =>
            ~ipv4.ok /\ ipv4.err = "IpNotEnough"

\* C2 witness: a /1 block, whose range is 2^31
C2_Witness ==
    /\ pc = "test_loop"
    /\ given.valid /\ given.prefix = 1
    /\ ipv4.ok /\ ipv4.range = W(32768, 0)

\* C3: for a pool with base B and range R, every get_ip call, after any number
\* of earlier calls, returns an address in [B+1, B+R-2]: never the network
\* address B, never the topmost address B+R-1.
C3_SampleInsideBlock ==
    (ipv4.ok /\ ncalls >= 1 /\ ~fault) =>
        /\ WLeq(WAdd(ipv4.base, W(0, 1)), sampled)
        /\ WLeq(sampled, WSub(WAdd(ipv4.base, ipv4.range), W(0, 2)))
        /\ sampled # ipv4.base
        /\ sampled # WSub(WAdd(ipv4.base, ipv4.range), W(0, 1))

\* C3 witness: a later call returns the highest address allowed, B+R-2, of
\* 192.167.0.0/16
C3_Witness ==
    /\ pc = "test_loop"
    /\ ncalls >= 2
    /\ ipv4.base = W(49319, 0) /\ ipv4.range = W(1, 0)
    /\ sampled = W(49319, 65534)

\* C4: for every valid CIDR string with prefix length 31 or 32, from_cidr fails
\* with IpNotEnough and no pool is constructed.
C4_TooSmallRejected ==
    (Called /\ given.valid /\ given.prefix \in {31, 32}) =>
        /\ ~ipv4.ok
        /\ ipv4.err = "IpNotEnough"
        /\ pc = "test_panicked"
        /\ ncalls = 0

\* C4 witness: a /31 written as a netmask is rejected
C4_Witness ==
    /\ pc = "test_panicked"
    /\ given.valid /\ given.prefix = 31
    /\ ParseIpv4Addr(cidr_parts(cidr).prefix).ok
    /\ ipv4.err = "IpNotEnough"

\* C9: for every pool from_cidr constructs, also from a string whose address has
\* host bits set, get_ip's base + offset never overflows a u32 and range - 1
\* never underflows: base + range - 1 <= 2^32 - 1 and [1, range-1) is not empty.
C9_NoOverflow ==
    /\ ~fault
    /\ ipv4.ok =>
        /\ Fits32(WSub(WAdd(ipv4.base, ipv4.range), W(0, 1)))
        /\ Fits32(WSub(ipv4.range, W(0, 1)))
        /\ WLess(W(0, 1), WSub(ipv4.range, W(0, 1)))

\* C9 witness: 255.255.255.255/30, host bits set, sampled at its highest
\* address 255.255.255.254
C9_Witness ==
    /\ pc = "test_loop"
    /\ ncalls >= 1
    /\ ParseIpv4Network(cidr).ip = W(65535, 65535)
    /\ ipv4.base = W(65535, 65532)
    /\ sampled = W(65535, 65534)

----------------------------------------------------------------------------
(* Properties of main (specification Spec) *)

ErrorOf(kind) == IF kind = "noq" THEN "EmptyQuery" ELSE "Proto"

\* C5: whenever query fails, nothing is sent for that request: a request that
\* decodes without a question fails with EmptyQuery, empty, truncated or
\* undecodable bytes fail with Proto, and in both cases no response bytes are
\* produced, main does not go on to send_to, and the only effect is the log
\* line (or the panic of a log line that cannot be written).
C5_FailureSendsNothing ==
    [][(pc = "handle" /\ wire.kind # "ok") =>
            /\ sent' = sent
            /\ encoded' = encoded
            /\ pc' # "send"
            /\ trace' = Append(trace, ErrorOf(wire.kind))
            /\ \/ log' = Append(log, <<"failed to parse request bytes", ErrorOf(wire.kind)>>)
               \/ log' = log /\ pc' = "exit" /\ exit_err' = "panic"]_vars

\* C5 witness: an undecodable datagram and one without a question were handled,
\* nothing went out
C5_Witness ==
    /\ pc = "recv"
    /\ trace = <<"Proto", "EmptyQuery">>
    /\ sent = <<>>

\* C6: per-request errors never end the service: whatever becomes of a datagram
\* (Proto, EmptyQuery, an encode failure, a send failure), main goes on, through
\* send_to or not, to recv_from with its socket and pool as before, and a
\* well-formed request with a question, whatever came before it, is answered to
\* its sender unless its own send fails.
C6_LoopSurvivesErrors ==
    [][(pc = "handle" \/ pc = "send") =>
            /\ pc' \in {"send", "recv"}
            /\ exit_err' = "none"
            /\ socket' = "bound"
            /\ ipv4' = ipv4
            /\ (pc = "handle" /\ wire.kind = "ok") =>
                (pc' = "send" /\ from_bytes(encoded').id = wire.id)
            /\ pc = "send" =>
                (/\ pc' = "recv"
                 /\ \/ (/\ trace' = Append(trace, "answered")
                        /\ sent' = Append(sent, [to |-> wire.from, bytes |-> encoded]))
                    \/ (/\ trace' = Append(trace, "send failed")
                        /\ sent' = sent))]_vars

\* C7: construction-time errors abort startup: when from_cidr fails, main
\* returns that error and never binds, receives or sends; main binds and listens
\* only with a pool constructed.
C7_NoPoolNoListening ==
    /\ (pc # "main" /\ ~ipv4.ok) =>
        /\ pc = "exit"
        /\ exit_err \in {"Ipv4Network", "IpNotEnough"}
        /\ exit_err = ipv4.err
        /\ socket = "unbound"
        /\ sent = <<>> /\ trace = <<>> /\ log = <<>> /\ wire = NoDatagram
    /\ (pc \in {"bind", "recv", "handle", "send"} \/ socket = "bound") =>
        ipv4.ok /\ given.valid

\* C7 witness: a /31 block: main has returned IpNotEnough, the socket unbound
C7_Witness ==
    /\ pc = "exit"
    /\ given.valid /\ given.prefix = 31
    /\ exit_err = "IpNotEnough"
    /\ socket = "unbound"

\* the responses main may send for the datagram last delivered: those computed
\* from its first 512 bytes alone, with an address get_ip returns
ResponsesFor(w) ==
    {to_bytes(query(Take(w.bytes, BufLen), o.ip)).bytes :
        o \in {r \in UNION {get_ip(ipv4, v) : v \in EntropyWords} : ~r.panic}}

\* C10: every response sent is computed from the first `size` bytes of the most
\* recent receive alone and goes to that datagram's source; what earlier, longer
\* datagrams left in the buffer never shows; at most one response is sent per
\* datagram received, and none without one.
C10_ResponseFromLastDatagramOnly ==
    /\ [][sent' # sent =>
            /\ pc = "send"
            /\ wire.kind = "ok"
            /\ Len(sent') = Len(sent) + 1
            /\ SubSeq(sent', 1, Len(sent)) = sent
            /\ sent'[Len(sent')].to = wire.from
            /\ sent'[Len(sent')].bytes \in ResponsesFor(wire)]_vars
    /\ [](Len(sent) <= Len(trace))
    /\ [](pc \in {"handle", "send"} =>
            size = Min(Len(wire.bytes), BufLen) /\ src = wire.from)

\* C10 witness: a 24-byte request was answered, then a 20-byte truncated one was
\* dropped while bytes 21..24 of the buffer still held the end of the first
C10_Witness ==
    /\ pc = "recv"
    /\ trace = <<"answered", "Proto">>
    /\ Len(sent) = 1
    /\ size = 20
    /\ SubSeq(buf, 21, 24) = <<0, 1, 0, 1>>

====
